---------------------------- MODULE Spec2Model ----------------------------
(***************************************************************************)
(* Model of the two programs of the repository:                            *)
(*   ejercicio1/ejercicio1_corregido.py  notification dispatch             *)
(*   ejercicio2/ejercicio2_corregido.py  report generation                 *)
(*                                                                         *)
(* Python values are modelled as follows.                                  *)
(*   - str: a TLA+ string; an f-string is the concatenation of its pieces. *)
(*     Accented letters and pictographs of the source literals are written *)
(*     in ASCII.                                                           *)
(*   - dict: a function on the set of keys present; d[k] on an absent key  *)
(*     raises KeyError(k).                                                 *)
(*   - list: a sequence.                                                   *)
(*   - float amounts: an integer number of cents; str() and ':.2f' are the *)
(*     operators PyStrFloat and Fmt2f.                                     *)
(*   - None, and "no exception": the empty sequence; a returned value v is *)
(*     <<v>>, a raised exception is <<type, argument>>.                    *)
(*   - datetime.now(): the fixed clock reading Now*; no operation branches *)
(*     on it.                                                              *)
(*   - print(): the console output is not part of the state.               *)
(* Each public method is one action: it runs to completion (the programs   *)
(* are single-threaded) and leaves in `call` what the caller observes: the *)
(* arguments, the value returned or the exception raised, and the methods  *)
(* of the collaborators that were invoked, in order.                       *)
(***************************************************************************)
EXTENDS Integers, Sequences, FiniteSets, TLC

VARIABLES
    program,             \* which of the two scripts this process runs
    notifications_sent,  \* OrderNotificationSystem.notifications_sent
    reports_generated,   \* ReportSystem.reports_generated
    call                 \* the last call of a public method, as its caller saw it

vars == <<program, notifications_sent, reports_generated, call>>

(***************************************************************************)
(* Bounds of the model.                                                    *)
(***************************************************************************)
\* process_order is called while the notification history, with the channels
\* requested, stays within MaxHist entries.
MaxHist == 3
\* generate_report is called while the report history holds fewer than
\* MaxReports entries.
MaxReports == 2

(***************************************************************************)
(* Python helpers.                                                         *)
(***************************************************************************)
None == <<>>

NoError == <<>>

Has(d, k) == k \in DOMAIN d

KeyError(k) == <<"KeyError", k>>

Digit2(n) == IF n < 10 THEN "0" \o ToString(n) ELSE ToString(n)

Abs(n) == IF n < 0 THEN -n ELSE n

Sign(n) == IF n < 0 THEN "-" ELSE ""

\* str(x) of a float x with at most two decimals: the shortest decimal
\* form, with at least one digit after the point ("150.5", "75.0").
PyStrFloat(cents) ==
    LET a == Abs(cents)
        frac == a % 100
    IN  Sign(cents) \o ToString(a \div 100) \o "." \o
        (IF frac % 10 = 0 THEN ToString(frac \div 10) ELSE Digit2(frac))

\* format(x, '.2f')
Fmt2f(cents) ==
    LET a == Abs(cents)
    IN  Sign(cents) \o ToString(a \div 100) \o "." \o Digit2(a % 100)

\* datetime.now().isoformat()
NowIso == "2024-01-15T10:30:00.000000"

\* datetime.now().strftime("%Y-%m-%d %H:%M:%S")
NowStamp == "2024-01-15 10:30:00"

(***************************************************************************)
(* ejercicio1: notification dispatch.                                      *)
(***************************************************************************)
NotificationType == {"email", "sms", "push"}

\* Outcome of a method: the exception raised (NoError if none) and the value.
Ok(v) == [error |-> NoError, value |-> v]

Raise(e) == [error |-> e, value |-> None]

\* customer_data.get('email', '') in place of customer_data['email']
EmailSender_send_Default(customer_data, message_data) ==
    LET email == IF Has(customer_data, "email") THEN customer_data["email"] ELSE ""
    IN  IF ~Has(message_data, "body") THEN Raise(KeyError("body"))
        ELSE Ok([type |-> "email", to |-> email,
                 message |-> message_data["body"], timestamp |-> NowIso])

EmailSender_send(customer_data, message_data) ==
    IF ~Has(customer_data, "email") THEN Raise(KeyError("email"))
    ELSE IF ~Has(message_data, "body") THEN Raise(KeyError("body"))
    ELSE Ok([type |-> "email", to |-> customer_data["email"],
             message |-> message_data["body"], timestamp |-> NowIso])

\* customer_data['email'] in place of customer_data['phone']
SMSSender_send_WrongField(customer_data, message_data) ==
    IF ~Has(customer_data, "email") THEN Raise(KeyError("email"))
    ELSE IF ~Has(message_data, "body") THEN Raise(KeyError("body"))
    ELSE Ok([type |-> "sms", to |-> customer_data["email"],
             message |-> message_data["body"], timestamp |-> NowIso])

SMSSender_send(customer_data, message_data) ==
    IF ~Has(customer_data, "phone") THEN Raise(KeyError("phone"))
    ELSE IF ~Has(message_data, "body") THEN Raise(KeyError("body"))
    ELSE Ok([type |-> "sms", to |-> customer_data["phone"],
             message |-> message_data["body"], timestamp |-> NowIso])

PushSender_send(customer_data, message_data) ==
    IF ~Has(customer_data, "device_id") THEN Raise(KeyError("device_id"))
    ELSE IF ~Has(message_data, "body") THEN Raise(KeyError("body"))
    ELSE Ok([type |-> "push", to |-> customer_data["device_id"],
             message |-> message_data["body"], timestamp |-> NowIso])

EmailMessageStrategy_create_message(order_id, customer_name, total) ==
    [subject |-> "Confirmacion de Pedido #" \o order_id,
     body |-> "Estimado " \o customer_name \o ", su pedido #" \o order_id
              \o " por $" \o PyStrFloat(total) \o " ha sido confirmado."]

ShortMessageStrategy_create_message(order_id, customer_name, total) ==
    [body |-> "Pedido #" \o order_id \o " confirmado. Total: $"
              \o PyStrFloat(total) \o ". Gracias por su compra!"]

\* get_sender falling back to a default sender, as get_strategy does
get_sender_Fallback(type_str) ==
    IF type_str \in NotificationType
    THEN Ok(CASE type_str = "email" -> "EmailSender"
              [] type_str = "sms" -> "SMSSender"
              [] type_str = "push" -> "PushSender")
    ELSE Ok("SMSSender")

\* The factory returns a fresh instance of a stateless class: the class name
\* stands for the instance.
get_sender(type_str) ==
    IF type_str \in NotificationType
    THEN Ok(CASE type_str = "email" -> "EmailSender"
              [] type_str = "sms" -> "SMSSender"
              [] type_str = "push" -> "PushSender")
    ELSE Raise(<<"ValueError", "Tipo de notificacion no soportado: " \o type_str>>)

\* the short-message strategy registered for every channel
get_strategy_AllShort(type_str) ==
    "ShortMessageStrategy"

get_strategy(type_str) ==
    IF type_str \in NotificationType
    THEN CASE type_str = "email" -> "EmailMessageStrategy"
           [] type_str = "sms" -> "ShortMessageStrategy"
           [] type_str = "push" -> "ShortMessageStrategy"
    ELSE "ShortMessageStrategy"

\* Dynamic dispatch of IMessageStrategy.create_message.
create_message(strategy, order_id, customer_name, total) ==
    IF strategy = "EmailMessageStrategy"
    THEN EmailMessageStrategy_create_message(order_id, customer_name, total)
    ELSE ShortMessageStrategy_create_message(order_id, customer_name, total)

\* Dynamic dispatch of INotificationSender.send.
send(sender, customer_data, message_data) ==
    CASE sender = "EmailSender" -> EmailSender_send(customer_data, message_data)
      [] sender = "SMSSender" -> SMSSender_send(customer_data, message_data)
      [] sender = "PushSender" -> PushSender_send(customer_data, message_data)

\* list.insert(0, x) in place of list.append(x)
ListInsertFront(list, x) == <<x>> \o list

\* list.append(x)
ListAppend(list, x) == Append(list, x)

\* The loop of process_order from its i-th channel on. st holds the history
\* and the methods invoked so far; the loop ends at the first exception.
RECURSIVE process_order_loop(_, _, _, _, _, _)
process_order_loop(order_id, customer, total, notification_types, i, st) ==
    IF i > Len(notification_types) THEN [st EXCEPT !.error = NoError]
    ELSE
      LET type_str == notification_types[i]
          sender == get_sender(type_str)
      IN  IF sender.error # NoError THEN [st EXCEPT !.error = sender.error]
          ELSE
            LET message_strategy == get_strategy(type_str)
                msg_data == create_message(message_strategy, order_id,
                                           customer["name"], total)
                made == Append(st.invoked, message_strategy \o ".create_message")
                log_entry == send(sender.value, customer, msg_data)
                tried == Append(made, sender.value \o ".send")
            IN  IF log_entry.error # NoError
                THEN [st EXCEPT !.error = log_entry.error, !.invoked = tried]
                ELSE process_order_loop(order_id, customer, total,
                        notification_types, i + 1,
                        [st EXCEPT !.sent = ListAppend(st.sent, log_entry.value),
                                   !.invoked = tried])

\* OrderNotificationSystem.process_order: the history after the call, the
\* exception that left it (NoError if it returned) and the methods invoked.
process_order(sent, order_data, notification_types) ==
    LET st == [sent |-> sent, error |-> NoError, invoked |-> <<>>]
    IN  IF ~Has(order_data, "order_id") THEN [st EXCEPT !.error = KeyError("order_id")]
        ELSE IF ~Has(order_data, "customer") THEN [st EXCEPT !.error = KeyError("customer")]
        ELSE IF ~Has(order_data, "total") THEN [st EXCEPT !.error = KeyError("total")]
        ELSE IF ~Has(order_data["customer"], "name") THEN [st EXCEPT !.error = KeyError("name")]
        ELSE process_order_loop(order_data["order_id"], order_data["customer"],
                                order_data["total"], notification_types, 1, st)

(***************************************************************************)
(* Inputs of ejercicio1.                                                   *)
(***************************************************************************)
Ana == [name |-> "Ana Garcia", email |-> "ana.garcia@email.com",
        phone |-> "+34-600-123-456", device_id |-> "DEVICE-ABC-123"]

Carlos == [name |-> "Carlos Ruiz", email |-> "carlos.ruiz@email.com",
           phone |-> "+34-600-789-012", device_id |-> "DEVICE-XYZ-789"]

Restrict(d, keys) == [k \in keys |-> d[k]]

ContactFields == {"email", "phone", "device_id"}

\* Ana with any subset of her contact fields, Carlos complete, and a
\* customer record without a name.
Customers ==
    {Restrict(Ana, {"name"} \cup ks) : ks \in SUBSET ContactFields}
    \cup {Carlos, Restrict(Ana, ContactFields)}

Orders ==
    {[order_id |-> "ORD-001", customer |-> c, total |-> 15050] :
        c \in Customers \ {Carlos}}
    \cup {[order_id |-> "ORD-002", customer |-> Carlos, total |-> 7500],
          [order_id |-> "ORD-003", customer |-> Carlos]}

\* The channel tags a caller passes: the three supported ones and one that
\* NotificationType does not hold.
ChannelTags == NotificationType \cup {"fax"}

ChannelLists(n) == UNION {[1..m -> ChannelTags] : m \in 0..n}

(***************************************************************************)
(* ejercicio2: report generation.                                          *)
(***************************************************************************)
\* "="*60 and "-"*60
Rule60 == "============================================================"

Dash60 == "------------------------------------------------------------"

RECURSIVE SumField(_, _, _)
\* sum(item[key] for item in list), from the i-th item on
SumField(list, key, i) ==
    IF i > Len(list) THEN 0 ELSE list[i][key] + SumField(list, key, i + 1)

\* Whether item[key] raises KeyError for some item of the list
MissingIn(list, key) == \E i \in 1..Len(list) : ~Has(list[i], key)

RECURSIVE SalesLines(_, _)
SalesLines(sales, i) ==
    IF i > Len(sales) THEN ""
    ELSE "  * Producto: " \o sales[i]["product"] \o " - $"
         \o Fmt2f(sales[i]["amount"]) \o "\n" \o SalesLines(sales, i + 1)

SalesGenerator_generate(data) ==
    LET header == Rule60 \o "\n" \o "           REPORTE DE VENTAS\n" \o Rule60 \o "\n"
                  \o "Fecha de generacion: " \o NowStamp \o "\n\n"
        period == IF Has(data, "period")
                  THEN "Periodo: " \o data["period"] \o "\n" ELSE ""
    IN  IF ~Has(data, "sales") THEN Raise(KeyError("sales"))
        ELSE IF MissingIn(data["sales"], "amount") THEN Raise(KeyError("amount"))
        ELSE IF MissingIn(data["sales"], "product") THEN Raise(KeyError("product"))
        ELSE Ok(header \o period
                \o "Total de ventas: $" \o Fmt2f(SumField(data["sales"], "amount", 1)) \o "\n"
                \o "Numero de transacciones: " \o ToString(Len(data["sales"])) \o "\n\n"
                \o "Detalle de ventas:\n" \o Dash60 \o "\n"
                \o SalesLines(data["sales"], 1))

\* item.get('category', 'General')
Category(item) == IF Has(item, "category") THEN item["category"] ELSE "General"

RECURSIVE InventoryLines(_, _)
InventoryLines(items, i) ==
    IF i > Len(items) THEN ""
    ELSE "  * " \o items[i]["name"] \o " (" \o Category(items[i]) \o "): "
         \o ToString(items[i]["quantity"]) \o " unidades\n"
         \o InventoryLines(items, i + 1)

InventoryGenerator_generate(data) ==
    LET header == Rule60 \o "\n" \o "           REPORTE DE INVENTARIO\n" \o Rule60 \o "\n"
                  \o "Fecha de generacion: " \o NowStamp \o "\n\n"
    IN  IF ~Has(data, "items") THEN Raise(KeyError("items"))
        ELSE IF MissingIn(data["items"], "quantity") THEN Raise(KeyError("quantity"))
        ELSE IF MissingIn(data["items"], "name") THEN Raise(KeyError("name"))
        ELSE
          LET items == data["items"]
              categories == {Category(items[i]) : i \in 1..Len(items)}
          IN  Ok(header
                 \o "Total de productos: " \o ToString(SumField(items, "quantity", 1)) \o "\n"
                 \o "Categorias: " \o ToString(Cardinality(categories)) \o "\n\n"
                 \o "Inventario actual:\n" \o Dash60 \o "\n"
                 \o InventoryLines(items, 1))

FinancialText(income, expenses) ==
    Rule60 \o "\n" \o "           REPORTE FINANCIERO\n" \o Rule60 \o "\n"
    \o "Fecha de generacion: " \o NowStamp \o "\n\n"
    \o "Ingresos: $" \o Fmt2f(income) \o "\n"
    \o "Gastos: $" \o Fmt2f(expenses) \o "\n"
    \o "Balance: $" \o Fmt2f(income - expenses) \o "\n"

\* data.get('income', 0) and data.get('expenses', 0) in place of data[...]
FinancialGenerator_generate_Default(data) ==
    Ok(FinancialText(IF Has(data, "income") THEN data["income"] ELSE 0,
                     IF Has(data, "expenses") THEN data["expenses"] ELSE 0))

FinancialGenerator_generate(data) ==
    IF ~Has(data, "income") THEN Raise(KeyError("income"))
    ELSE IF ~Has(data, "expenses") THEN Raise(KeyError("expenses"))
    ELSE Ok(FinancialText(data["income"], data["expenses"]))

\* the PDF envelope without its closing marker
PdfFormatter_format_NoEnd(text) == "[PDF FORMAT]\n" \o text

PdfFormatter_format(text) == "[PDF FORMAT]\n" \o text \o "\n[END PDF]"

ExcelFormatter_format(text) == "[EXCEL FORMAT]\n" \o text \o "\n[END EXCEL]"

HtmlFormatter_format(text) == "<html><body><pre>" \o text \o "</pre></body></html>"

\* The deliveries only print; DownloadDelivery and CloudDelivery read the
\* meta data to build what they print.
EmailDelivery_deliver(document, meta_data) == Ok(None)

DownloadDelivery_deliver(document, meta_data) ==
    IF ~Has(meta_data, "type") THEN Raise(KeyError("type"))
    ELSE IF ~Has(meta_data, "format") THEN Raise(KeyError("format"))
    ELSE Ok(None)

CloudDelivery_deliver(document, meta_data) ==
    IF ~Has(meta_data, "type") THEN Raise(KeyError("type")) ELSE Ok(None)

\* get_generator falling back to a default generator, as get_formatter does
get_generator_Fallback(report_type) ==
    CASE report_type = "sales" -> <<"SalesGenerator">>
      [] report_type = "inventory" -> <<"InventoryGenerator">>
      [] report_type = "financial" -> <<"FinancialGenerator">>
      [] OTHER -> <<"SalesGenerator">>

\* The generator class, or None
get_generator(report_type) ==
    CASE report_type = "sales" -> <<"SalesGenerator">>
      [] report_type = "inventory" -> <<"InventoryGenerator">>
      [] report_type = "financial" -> <<"FinancialGenerator">>
      [] OTHER -> None

\* get_formatter falling back to the PDF formatter
get_formatter_FallbackPdf(output_format) ==
    CASE output_format = "pdf" -> "PdfFormatter"
      [] output_format = "excel" -> "ExcelFormatter"
      [] output_format = "html" -> "HtmlFormatter"
      [] OTHER -> "PdfFormatter"

get_formatter(output_format) ==
    CASE output_format = "pdf" -> "PdfFormatter"
      [] output_format = "excel" -> "ExcelFormatter"
      [] output_format = "html" -> "HtmlFormatter"
      [] OTHER -> "HtmlFormatter"

get_delivery(delivery_method) ==
    CASE delivery_method = "email" -> "EmailDelivery"
      [] delivery_method = "download" -> "DownloadDelivery"
      [] delivery_method = "cloud" -> "CloudDelivery"
      [] OTHER -> "DownloadDelivery"

\* Dynamic dispatch of ContentGenerator.generate.
generate(generator, data) ==
    CASE generator = "SalesGenerator" -> SalesGenerator_generate(data)
      [] generator = "InventoryGenerator" -> InventoryGenerator_generate(data)
      [] generator = "FinancialGenerator" -> FinancialGenerator_generate(data)

\* Dynamic dispatch of ReportFormatter.format.
format(formatter, text) ==
    CASE formatter = "PdfFormatter" -> PdfFormatter_format(text)
      [] formatter = "ExcelFormatter" -> ExcelFormatter_format(text)
      [] formatter = "HtmlFormatter" -> HtmlFormatter_format(text)

\* Dynamic dispatch of DeliveryChannel.deliver.
deliver(delivery, document, meta_data) ==
    CASE delivery = "EmailDelivery" -> EmailDelivery_deliver(document, meta_data)
      [] delivery = "DownloadDelivery" -> DownloadDelivery_deliver(document, meta_data)
      [] delivery = "CloudDelivery" -> CloudDelivery_deliver(document, meta_data)

\* ReportSystem.generate_report: the history after the call, the exception
\* that left it (NoError if it returned), the value returned (None or
\* <<document>>) and the methods invoked, in order.
generate_report(reports, report_type, data, output_format, delivery_method) ==
    LET generator == get_generator(report_type)
        formatter == get_formatter(output_format)
        delivery == get_delivery(delivery_method)
        st == [reports |-> reports, error |-> NoError, ret |-> None, invoked |-> <<>>]
    IN  IF generator = None THEN st
        ELSE
          LET raw_content == generate(generator[1], data)
              i1 == <<generator[1] \o ".generate">>
          IN  IF raw_content.error # NoError
              THEN [st EXCEPT !.error = raw_content.error, !.invoked = i1]
              ELSE
                LET final_document == format(formatter, raw_content.value)
                    i2 == Append(i1, formatter \o ".format")
                    meta_data == [type |-> report_type, format |-> output_format]
                    delivered == deliver(delivery, final_document, meta_data)
                    i3 == Append(i2, delivery \o ".deliver")
                IN  IF delivered.error # NoError
                    THEN [st EXCEPT !.error = delivered.error, !.invoked = i3]
                    ELSE [reports |-> ListAppend(reports,
                                        [type |-> report_type, format |-> output_format,
                                         delivery |-> delivery_method,
                                         timestamp |-> NowStamp]),
                          error |-> NoError,
                          ret |-> <<final_document>>,
                          invoked |-> Append(i3, "reports_generated.append")]

(***************************************************************************)
(* Inputs of ejercicio2.                                                   *)
(***************************************************************************)
sales_data ==
    [period |-> "Enero 2024",
     sales |-> <<[product |-> "Laptop HP", amount |-> 89999],
                 [product |-> "Mouse Logitech", amount |-> 2550]>>]

inventory_data ==
    [items |-> <<[name |-> "Laptop HP", category |-> "Computadoras", quantity |-> 15],
                 [name |-> "Mouse Logitech", quantity |-> 50]>>]

financial_data == [income |-> 3200000, expenses |-> 5000000]

\* The three payloads of the demonstration (shortened), and payloads that
\* lack a field some generator reads.
Payloads ==
    {sales_data, inventory_data, financial_data,
     [sales |-> <<>>],
     [sales |-> <<[product |-> "Laptop HP"]>>],
     [period |-> "Enero 2024"],
     [income |-> 3200000],
     [expenses |-> 5000000]}

ReportTypes == {"sales", "inventory", "financial", "audit"}

OutputFormats == {"pdf", "excel", "html", "xml"}

DeliveryMethods == {"email", "download", "cloud", "ftp"}

(***************************************************************************)
(* The state machine.  One call is outstanding at a time: a method is      *)
(* called when the caller has taken the result of the previous call.       *)
(***************************************************************************)
Idle == [op |-> "idle", args |-> <<>>, error |-> NoError, ret |-> None,
         invoked |-> <<>>]

Init ==
    /\ program \in {"ejercicio1", "ejercicio2"}
    /\ notifications_sent = <<>>
    /\ reports_generated = <<>>
    /\ call = Idle

ProcessOrder ==
    /\ program = "ejercicio1"
    /\ call = Idle
    /\ \E order_data \in Orders :
       \E notification_types \in ChannelLists(MaxHist - Len(notifications_sent)) :
          LET r == process_order(notifications_sent, order_data, notification_types)
          IN  /\ notifications_sent' = r.sent
              /\ call' = [op |-> "process_order",
                          args |-> <<order_data, notification_types>>,
                          error |-> r.error, ret |-> None, invoked |-> r.invoked]
    /\ UNCHANGED <<program, reports_generated>>

\* get_notification_history returns the list object itself.
GetNotificationHistory ==
    /\ program = "ejercicio1"
    /\ call = Idle
    /\ call' = [op |-> "get_notification_history", args |-> <<>>,
                error |-> NoError, ret |-> <<"self.notifications_sent">>,
                invoked |-> <<>>]
    /\ UNCHANGED <<program, notifications_sent, reports_generated>>

GenerateReport ==
    /\ program = "ejercicio2"
    /\ call = Idle
    /\ Len(reports_generated) < MaxReports
    /\ \E report_type \in ReportTypes, data \in Payloads,
          output_format \in OutputFormats, delivery_method \in DeliveryMethods :
          LET r == generate_report(reports_generated, report_type, data,
                                   output_format, delivery_method)
          IN  /\ reports_generated' = r.reports
              /\ call' = [op |-> "generate_report",
                          args |-> <<report_type, data, output_format, delivery_method>>,
                          error |-> r.error, ret |-> r.ret, invoked |-> r.invoked]
    /\ UNCHANGED <<program, notifications_sent>>

\* get_report_history returns the list object itself.
GetReportHistory ==
    /\ program = "ejercicio2"
    /\ call = Idle
    /\ call' = [op |-> "get_report_history", args |-> <<>>,
                error |-> NoError, ret |-> <<"self.reports_generated">>,
                invoked |-> <<>>]
    /\ UNCHANGED <<program, notifications_sent, reports_generated>>

\* The caller takes the result of the call (or catches its exception).
Return ==
    /\ call # Idle
    /\ call' = Idle
    /\ UNCHANGED <<program, notifications_sent, reports_generated>>

Next ==
    \/ ProcessOrder
    \/ GetNotificationHistory
    \/ GenerateReport
    \/ GetReportHistory
    \/ Return

Spec == Init /\ [][Next]_vars

(***************************************************************************)
(* A caller that keeps the list a history getter returned and uses the     *)
(* list methods on it: the getters return the orchestrator's own list, so  *)
(* these act on the history.                                               *)
(***************************************************************************)
HeldList == call.op \in {"get_notification_history", "get_report_history"}

\* history = system.get_..._history(); history.pop()
CallerPop ==
    /\ HeldList
    /\ IF program = "ejercicio1"
       THEN /\ notifications_sent # <<>>
            /\ notifications_sent' =
                   SubSeq(notifications_sent, 1, Len(notifications_sent) - 1)
            /\ UNCHANGED reports_generated
       ELSE /\ reports_generated # <<>>
            /\ reports_generated' =
                   SubSeq(reports_generated, 1, Len(reports_generated) - 1)
            /\ UNCHANGED notifications_sent
    /\ UNCHANGED <<program, call>>

\* history = system.get_..._history(); history.reverse()
CallerReverse ==
    /\ HeldList
    /\ LET Rev(s) == [i \in 1..Len(s) |-> s[Len(s) + 1 - i]]
       IN  IF program = "ejercicio1"
           THEN /\ Len(notifications_sent) > 1
                /\ notifications_sent' = Rev(notifications_sent)
                /\ UNCHANGED reports_generated
           ELSE /\ Len(reports_generated) > 1
                /\ reports_generated' = Rev(reports_generated)
                /\ UNCHANGED notifications_sent
    /\ UNCHANGED <<program, call>>

NextWithCaller ==
    \/ Next
    \/ CallerPop
    \/ CallerReverse

SpecWithCaller == Init /\ [][NextWithCaller]_vars

(***************************************************************************)
(* Vocabulary of the properties.  A step whose new `call` is a call of a   *)
(* method is the step that ran that method: the unprimed history is the    *)
(* history before the call, the primed one the history after it.           *)
(***************************************************************************)
IsPrefix(s, t) == Len(s) <= Len(t) /\ SubSeq(t, 1, Len(s)) = s

Types(history) == [i \in 1..Len(history) |-> history[i].type]

Last(s) == s[Len(s)]

\* The customer field a channel's sender reads.
ContactField(channel) ==
    CASE channel = "email" -> "email"
      [] channel = "sms" -> "phone"
      [] channel = "push" -> "device_id"

\* process_order reaches its loop: the order has its three fields and the
\* customer a name.
Readable(order) ==
    /\ {"order_id", "customer", "total"} \subseteq DOMAIN order
    /\ Has(order["customer"], "name")

WellFormedOrder(order) ==
    /\ Readable(order)
    /\ ContactFields \subseteq DOMAIN order["customer"]

\* The channel at position j is supported and the customer has its field.
Deliverable(order, channels, j) ==
    /\ channels[j] \in NotificationType
    /\ Has(order["customer"], ContactField(channels[j]))

\* The sends of the first n channels, as they appear among the methods invoked.
SendsOf(channels, n) ==
    [j \in 1..n |-> CASE channels[j] = "email" -> "EmailSender.send"
                      [] channels[j] = "sms" -> "SMSSender.send"
                      [] channels[j] = "push" -> "PushSender.send"]

\* The sends among the methods invoked by a call of process_order: each
\* channel processed invokes create_message, then send.
Sends(invoked) == [j \in 1..(Len(invoked) \div 2) |-> invoked[2 * j]]

ProcessOrderStep == call'.op = "process_order"

GenerateReportStep == call'.op = "generate_report"

KnownReports == {"sales", "inventory", "financial"}

KnownFormats == {"pdf", "excel", "html"}

KnownDeliveries == {"email", "download", "cloud"}

\* The payload has every field the generator of the report type reads.
WellFormedPayload(report_type, data) ==
    CASE report_type = "sales" ->
           /\ Has(data, "sales")
           /\ \A i \in 1..Len(data["sales"]) :
                 {"product", "amount"} \subseteq DOMAIN data["sales"][i]
      [] report_type = "inventory" ->
           /\ Has(data, "items")
           /\ \A i \in 1..Len(data["items"]) :
                 {"name", "quantity"} \subseteq DOMAIN data["items"][i]
      [] report_type = "financial" ->
           {"income", "expenses"} \subseteq DOMAIN data
      [] OTHER -> FALSE

\* The top-level fields the generator of the report type requires.
RequiredFields(report_type) ==
    CASE report_type = "sales" -> {"sales"}
      [] report_type = "inventory" -> {"items"}
      [] report_type = "financial" -> {"income", "expenses"}

GeneratorOf(report_type) ==
    CASE report_type = "sales" -> "SalesGenerator"
      [] report_type = "inventory" -> "InventoryGenerator"
      [] report_type = "financial" -> "FinancialGenerator"

\* The document of a format: the content between the format's markers.
Envelope(output_format, content) ==
    CASE output_format = "pdf" -> "[PDF FORMAT]\n" \o content \o "\n[END PDF]"
      [] output_format = "excel" -> "[EXCEL FORMAT]\n" \o content \o "\n[END EXCEL]"
      [] output_format = "html" -> "<html><body><pre>" \o content \o "</pre></body></html>"

(***************************************************************************)
(* C1.  For every supported channel C and every well-formed order O,       *)
(* process_order(O, [C]) returns, appends exactly one entry to the         *)
(* notification history, of type C and addressed to the customer's field   *)
(* of that channel, and leaves the earlier entries as they were.           *)
(***************************************************************************)
C1_SingleChannelAppendsOne ==
    [][ProcessOrderStep =>
        LET order == call'.args[1]
            channels == call'.args[2]
        IN  (WellFormedOrder(order) /\ Len(channels) = 1
                /\ channels[1] \in NotificationType) =>
            /\ call'.error = NoError
            /\ Len(notifications_sent') = Len(notifications_sent) + 1
            /\ IsPrefix(notifications_sent, notifications_sent')
            /\ Last(notifications_sent').type = channels[1]
            /\ Last(notifications_sent').to =
                   order["customer"][ContactField(channels[1])]
    ]_vars

\* A second entry, a push notification to Carlos's device, was appended
\* after an earlier entry by process_order(order2, ['push']).
C1_Witness ==
    /\ call.op = "process_order"
    /\ call.args[1]["customer"] = Carlos
    /\ Has(call.args[1], "total")
    /\ call.args[2] = <<"push">>
    /\ Len(notifications_sent) = 2
    /\ notifications_sent[2].to = "DEVICE-XYZ-789"

(***************************************************************************)
(* C2.  If the first channel that cannot be delivered is an unsupported    *)
(* tag, at position k, process_order fails with the unsupported-type       *)
(* error; the k-1 channels before it each contributed one entry, in order, *)
(* and these stay in the history; the failing channel and the channels     *)
(* after it contribute no entry and no send is invoked for them.           *)
(***************************************************************************)
C2_UnsupportedChannelFailsFast ==
    [][ProcessOrderStep =>
        LET order == call'.args[1]
            channels == call'.args[2]
        IN  \A k \in 1..Len(channels) :
              (/\ Readable(order)
               /\ channels[k] \notin NotificationType
               /\ \A j \in 1..(k - 1) : Deliverable(order, channels, j)) =>
              /\ call'.error = <<"ValueError",
                     "Tipo de notificacion no soportado: " \o channels[k]>>
              /\ Len(notifications_sent') = Len(notifications_sent) + k - 1
              /\ IsPrefix(notifications_sent, notifications_sent')
              /\ \A j \in 1..(k - 1) :
                    notifications_sent'[Len(notifications_sent) + j].type = channels[j]
              /\ Sends(call'.invoked) = SendsOf(channels, k - 1)
    ]_vars

\* process_order(order1, ['email', 'fax', 'sms']): the email entry was
\* appended, nothing for 'fax' and 'sms'.
C2_Witness ==
    /\ call.op = "process_order"
    /\ call.args[2] = <<"email", "fax", "sms">>
    /\ call.error # NoError
    /\ call.error[1] = "ValueError"
    /\ Types(notifications_sent) = <<"email">>

(***************************************************************************)
(* C3.  For a report type among sales, inventory, financial, a well-formed *)
(* payload and a format among pdf, excel, html, generate_report returns a  *)
(* document (not None) that is the generator's content between the         *)
(* markers of the requested format, and appends exactly one entry to the   *)
(* report history, after the delivery.                                     *)
(***************************************************************************)
C3_ReportIsWrappedAndLogged ==
    [][GenerateReportStep =>
        LET report_type == call'.args[1]
            data == call'.args[2]
            output_format == call'.args[3]
        IN  (report_type \in KnownReports /\ WellFormedPayload(report_type, data)
                /\ output_format \in KnownFormats) =>
            /\ call'.error = NoError
            /\ call'.ret # None
            /\ call'.ret[1] = Envelope(output_format,
                                  generate(GeneratorOf(report_type), data).value)
            /\ Len(reports_generated') = Len(reports_generated) + 1
            /\ IsPrefix(reports_generated, reports_generated')
            /\ Len(call'.invoked) = 4
            /\ call'.invoked[1] = GeneratorOf(report_type) \o ".generate"
            /\ call'.invoked[3] \in {"EmailDelivery.deliver",
                                     "DownloadDelivery.deliver",
                                     "CloudDelivery.deliver"}
            /\ call'.invoked[4] = "reports_generated.append"
    ]_vars

\* generate_report('sales', sales_data, 'pdf', 'email') returned its document.
C3_Witness ==
    /\ call.op = "generate_report"
    /\ call.args = <<"sales", sales_data, "pdf", "email">>
    /\ call.ret # None
    /\ Len(reports_generated) = 1

(***************************************************************************)
(* C4.  generate_report with a report type outside sales, inventory,       *)
(* financial returns None without raising, leaves the report history as it *)
(* was, and invokes neither generate, nor format, nor deliver, whatever    *)
(* the payload, the output format and the delivery method.                 *)
(***************************************************************************)
C4_UnknownReportIsNoOp ==
    [][GenerateReportStep =>
        (call'.args[1] \notin KnownReports =>
            /\ call'.error = NoError
            /\ call'.ret = None
            /\ reports_generated' = reports_generated
            /\ call'.invoked = <<>>)
    ]_vars

\* generate_report('audit', sales_data, 'pdf', 'email') on a history of one
\* entry.
C4_Witness ==
    /\ call.op = "generate_report"
    /\ call.args = <<"audit", sales_data, "pdf", "email">>
    /\ call.ret = None
    /\ Len(reports_generated) = 1

(***************************************************************************)
(* C5.  The histories are in the documented order.  Every call of          *)
(* process_order that returns extends the notification history by one      *)
(* entry per requested channel, in the order of the channel list,          *)
(* duplicates included; every call of generate_report that returns a       *)
(* document extends the report history by the entry of that call.  Hence   *)
(* each history is the concatenation, in call order, of what the           *)
(* successful calls requested.                                             *)
(***************************************************************************)
C5_HistoryInCallOrder ==
    [][/\ (ProcessOrderStep /\ call'.error = NoError) =>
            /\ IsPrefix(notifications_sent, notifications_sent')
            /\ Types(notifications_sent') =
                   Types(notifications_sent) \o call'.args[2]
       /\ (GenerateReportStep /\ call'.error = NoError /\ call'.ret # None) =>
            /\ IsPrefix(reports_generated, reports_generated')
            /\ Len(reports_generated') = Len(reports_generated) + 1
            /\ Last(reports_generated').type = call'.args[1]
            /\ Last(reports_generated').format = call'.args[3]
            /\ Last(reports_generated').delivery = call'.args[4]
    ]_vars

\* process_order(order1, ['email', 'sms', 'push']) left three entries, of
\* types email, sms, push in this order.
C5_Witness ==
    /\ call.op = "process_order"
    /\ call.error = NoError
    /\ call.args[2] = <<"email", "sms", "push">>
    /\ Types(notifications_sent) = <<"email", "sms", "push">>

(***************************************************************************)
(* C6.  Each history is append-only and not externally mutable: across any *)
(* sequence of operations of the public interface, including what a caller *)
(* does with the value a history getter returns, the history before a step *)
(* is a prefix of the history after it.                                    *)
(***************************************************************************)
C6_HistoryAppendOnly ==
    [][/\ IsPrefix(notifications_sent, notifications_sent')
       /\ IsPrefix(reports_generated, reports_generated')]_vars

(***************************************************************************)
(* C7.  If generate_report is called with a report type among sales,       *)
(* inventory, financial and a payload that lacks a field the generator     *)
(* requires, the missing-field error (KeyError of a required field that is *)
(* absent) reaches the caller; format and deliver are not invoked and the  *)
(* report history is as it was.                                            *)
(***************************************************************************)
C7_MissingPayloadFieldAborts ==
    [][GenerateReportStep =>
        LET report_type == call'.args[1]
            data == call'.args[2]
        IN  (/\ report_type \in KnownReports
             /\ ~(RequiredFields(report_type) \subseteq DOMAIN data)) =>
            /\ call'.error \in {KeyError(f) :
                                  f \in RequiredFields(report_type) \ DOMAIN data}
            /\ call'.ret = None
            /\ call'.invoked = <<GeneratorOf(report_type) \o ".generate">>
            /\ reports_generated' = reports_generated
    ]_vars

\* generate_report('financial', {'income': ...}, 'html', 'cloud') raised
\* KeyError('expenses') on a history of one entry.
C7_Witness ==
    /\ call.op = "generate_report"
    /\ call.args = <<"financial", [income |-> 3200000], "html", "cloud">>
    /\ call.error = KeyError("expenses")
    /\ Len(reports_generated) = 1

(***************************************************************************)
(* C8.  A sender reads only the contact field of its own channel.  If the  *)
(* first channel that cannot be delivered, at position k, is a supported   *)
(* channel whose contact field is absent, process_order fails there with   *)
(* the KeyError of that field, appends nothing for that channel and the    *)
(* later ones, and keeps the entries of the k-1 channels before it.  If    *)
(* every requested channel is supported and has its contact field, the     *)
(* call returns, whatever other contact fields are absent.                 *)
(***************************************************************************)
C8_MissingContactField ==
    [][ProcessOrderStep =>
        LET order == call'.args[1]
            channels == call'.args[2]
        IN  Readable(order) =>
            /\ \A k \in 1..Len(channels) :
                 (/\ channels[k] \in NotificationType
                  /\ ~Has(order["customer"], ContactField(channels[k]))
                  /\ \A j \in 1..(k - 1) : Deliverable(order, channels, j)) =>
                 /\ call'.error = KeyError(ContactField(channels[k]))
                 /\ Len(notifications_sent') = Len(notifications_sent) + k - 1
                 /\ IsPrefix(notifications_sent, notifications_sent')
                 /\ \A j \in 1..(k - 1) :
                       notifications_sent'[Len(notifications_sent) + j].type
                           = channels[j]
            /\ (\A j \in 1..Len(channels) : Deliverable(order, channels, j)) =>
                 /\ call'.error = NoError
                 /\ Len(notifications_sent') =
                        Len(notifications_sent) + Len(channels)
    ]_vars

\* process_order of Ana without an email address, for ['sms', 'email',
\* 'push']: the sms entry was appended, then KeyError('email').
C8_Witness ==
    /\ call.op = "process_order"
    /\ call.args[2] = <<"sms", "email", "push">>
    /\ ~Has(call.args[1]["customer"], "email")
    /\ call.error = KeyError("email")
    /\ Types(notifications_sent) = <<"sms">>

(***************************************************************************)
(* C9.  For a report type among sales, inventory, financial and a          *)
(* well-formed payload, generate_report does not fail whatever the output  *)
(* format and the delivery method: an unrecognized format is formatted by  *)
(* the HTML formatter, an unrecognized delivery method is delivered by the *)
(* download channel, the document is returned, and exactly one entry is    *)
(* appended, whose type, format and delivery are the arguments as passed.  *)
(***************************************************************************)
C9_FormatAndDeliveryFallBack ==
    [][GenerateReportStep =>
        LET report_type == call'.args[1]
            data == call'.args[2]
            output_format == call'.args[3]
            delivery_method == call'.args[4]
            content == generate(GeneratorOf(report_type), data).value
        IN  (report_type \in KnownReports /\ WellFormedPayload(report_type, data)) =>
            /\ call'.error = NoError
            /\ call'.ret # None
            /\ Len(call'.invoked) = 4
            /\ output_format \notin KnownFormats =>
                  /\ call'.invoked[2] = "HtmlFormatter.format"
                  /\ call'.ret[1] = Envelope("html", content)
            /\ delivery_method \notin KnownDeliveries =>
                  call'.invoked[3] = "DownloadDelivery.deliver"
            /\ Len(reports_generated') = Len(reports_generated) + 1
            /\ IsPrefix(reports_generated, reports_generated')
            /\ Last(reports_generated').type = report_type
            /\ Last(reports_generated').format = output_format
            /\ Last(reports_generated').delivery = delivery_method
    ]_vars

\* generate_report('inventory', inventory_data, 'xml', 'ftp') returned its
\* document and logged 'xml' and 'ftp'.
C9_Witness ==
    /\ call.op = "generate_report"
    /\ call.args = <<"inventory", inventory_data, "xml", "ftp">>
    /\ call.ret # None
    /\ Len(reports_generated) = 2
    /\ reports_generated[2].format = "xml"
    /\ reports_generated[2].delivery = "ftp"

(***************************************************************************)
(* C10.  In every state reached through process_order, every entry of the  *)
(* notification history has a type among email, sms, push, and its message *)
(* is the body the strategy registered for that channel makes of some      *)
(* order: the email strategy for email, the short-message strategy for sms *)
(* and push.  No entry comes from an unrecognized tag.                     *)
(***************************************************************************)
C10_EntriesFromRegisteredStrategy ==
    \A i \in 1..Len(notifications_sent) :
       LET entry == notifications_sent[i]
       IN  /\ entry.type \in NotificationType
           /\ \E order \in {o \in Orders : Readable(o)} :
                 entry.message =
                    IF entry.type = "email"
                    THEN EmailMessageStrategy_create_message(order["order_id"],
                             order["customer"]["name"], order["total"]).body
                    ELSE ShortMessageStrategy_create_message(order["order_id"],
                             order["customer"]["name"], order["total"]).body

\* process_order(order1, ['email', 'push', 'fax']) failed on 'fax' and left
\* the email and the push entries.
C10_Witness ==
    /\ call.op = "process_order"
    /\ call.args[2] = <<"email", "push", "fax">>
    /\ call.error # NoError
    /\ Types(notifications_sent) = <<"email", "push">>

=============================================================================
